---- MODULE Spec2Model ----
(***************************************************************************)
(* The layered configuration store of lib/simple_config.py (SimpleConfig). *)
(*                                                                         *)
(* Two layers: cmdline_options (the override layer) and user_config (the   *)
(* persisted layer), the config file on disk, the version upgrade run by   *)
(* the constructor, and the wallet-path helpers that touch the layers.     *)
(* The store also keeps the fee estimates: a cache from confirmation       *)
(* target to fee rate, the time each target was last updated and the time  *)
(* estimates were last requested.  Spec runs the config methods, SpecFee   *)
(* the fee methods, SpecRefresh the refresh policy against a moving clock, *)
(* and SpecThreads two threads that are inside the store at the same time. *)
(*                                                                         *)
(* A Python value is a record [t, n, s, b]: its type t and, by type, the    *)
(* int n, the str s or the bool b; a str is a sequence of one-character    *)
(* strings so that rsplit and int() are computed on it.                    *)
(* A dict is a function whose DOMAIN is the set of its keys.               *)
(* An operation of the store is an operator from a machine record          *)
(*   [cmd, uc, disk, path, err, steps, write_errors]                       *)
(* to the SET of machine records it can end in: a write to the config file *)
(* either succeeds or raises OSError, and err names the exception that     *)
(* left the operation ("none" when it returned normally).                  *)
(***************************************************************************)
EXTENDS Integers, Sequences, FiniteSets, TLC

VARIABLES
    phase,            \* "new" before SimpleConfig(...), then "ready" or "failed"
    options,          \* the options argument the constructor was given
    path,             \* self.path ("" while unset)
    cmdline_options,  \* self.cmdline_options, the override layer
    user_config,      \* self.user_config, the persisted layer
    disk,             \* the file <path>/config
    last,             \* the call made in the last step and its arguments
    out,              \* what it returned (VNull for None)
    err,              \* the exception it raised, "none" when it returned
    steps,            \* how many migration steps it applied
    write_errors,     \* how many writes of the config file raised in it
    fee_estimates,    \* self.fee_estimates, (target, fee) pairs in insertion order
    fee_estimates_last_updated,           \* self.fee_estimates_last_updated
    last_time_fee_estimates_requested,    \* self.last_time_fee_estimates_requested
    now,              \* what time.time() returns, in seconds
    ticks,            \* how many times the clock has been advanced
    threads,          \* the call each thread is in: its arguments, place and locals
    lock              \* self.lock, an RLock: its owner (0: nobody) and its count

cfgVars == <<phase, options, path, cmdline_options, user_config, disk, steps, write_errors>>
feeVars == <<fee_estimates, fee_estimates_last_updated, last_time_fee_estimates_requested>>
clockVars == <<now, ticks>>
threadVars == <<threads, lock>>
vars == <<cfgVars, last, out, err, feeVars, clockVars, threadVars>>

FINAL_CONFIG_VERSION == 2

-----------------------------------------------------------------------------
(* Python values *)

VNull == [t |-> "null", n |-> 0, s |-> <<>>, b |-> FALSE]
VInt(x) == [t |-> "int", n |-> x, s |-> <<>>, b |-> FALSE]
VStr(x) == [t |-> "str", n |-> 0, s |-> x, b |-> FALSE]
VBool(x) == [t |-> "bool", n |-> 0, s |-> <<>>, b |-> x]

\* int and bool are the values Python orders against an int; anything else
\* raises TypeError in "<" and ">"
IsNumber(x) == x.t \in {"int", "bool"}
NumOf(x) == IF x.t = "bool" THEN (IF x.b THEN 1 ELSE 0) ELSE x.n

(* dict *)

EmptyDict == [k \in {} |-> VNull]
DictGet(d, k, default) == IF k \in DOMAIN d THEN d[k] ELSE default
DictSet(d, k, x) == [j \in DOMAIN d \cup {k} |-> IF j = k THEN x ELSE d[j]]
DictPop(d, k) == [j \in DOMAIN d \ {k} |-> d[j]]

(* str *)

Colon == ":"
Digits == {"0", "1", "2", "3", "4", "5", "6", "7", "8", "9"}
DigitSeq == <<"0", "1", "2", "3", "4", "5", "6", "7", "8", "9">>

RECURSIVE Decimal(_)
Decimal(n) ==
    IF n < 0 THEN <<"-">> \o Decimal(0 - n)
    ELSE IF n < 10 THEN <<DigitSeq[n + 1]>>
    ELSE Decimal(n \div 10) \o <<DigitSeq[(n % 10) + 1]>>

\* str(x): the text of a value that is not a str holds no colon
PyStr(x) ==
    CASE x.t = "str" -> x.s
      [] x.t = "int" -> Decimal(x.n)
      [] x.t = "bool" -> IF x.b THEN <<"T", "r", "u", "e">> ELSE <<"F", "a", "l", "s", "e">>
      [] OTHER -> <<"N", "o", "n", "e">>

\* the index of the last sep in s, 0 when there is none
RECURSIVE LastIndexOf(_, _)
LastIndexOf(s, sep) ==
    IF Len(s) = 0 THEN 0
    ELSE IF s[Len(s)] = sep THEN Len(s)
    ELSE LastIndexOf(SubSeq(s, 1, Len(s) - 1), sep)

\* s.rsplit(sep, maxsplit): at most maxsplit cuts, taken from the right
RECURSIVE rsplit(_, _, _)
rsplit(s, sep, maxsplit) ==
    LET i == LastIndexOf(s, sep) IN
    IF maxsplit = 0 \/ i = 0 THEN <<s>>
    ELSE Append(rsplit(SubSeq(s, 1, i - 1), sep, maxsplit - 1), SubSeq(s, i + 1, Len(s)))

\* int(s) returns (does not raise ValueError): an optional sign, then digits.
\* The strings of this model hold no blank and no underscore.
IntParses(s) ==
    LET body == IF Len(s) > 0 /\ s[1] \in {"+", "-"} THEN Tail(s) ELSE s IN
    /\ Len(body) > 0
    /\ \A i \in 1..Len(body) : body[i] \in Digits

-----------------------------------------------------------------------------
(* The config file: json.dumps(user_config, indent=4, sort_keys=True) is   *)
(* the sequence of the dict's <<key, value>> members in key order;         *)
(* json.loads builds the dict back from the members, the last one of a     *)
(* repeated key winning.                                                   *)

\* every key of the model, in the order sort_keys gives them
KeyOrder ==
    <<"auto_connect", "auto_cycle", "config_version", "default_wallet_path",
      "gui_last_wallet", "max_fee_rate", "server", "wallet_path">>
Keys == {KeyOrder[i] : i \in 1..Len(KeyOrder)}

RECURSIVE MembersFrom(_, _)
MembersFrom(d, i) ==
    IF i > Len(KeyOrder) THEN <<>>
    ELSE IF KeyOrder[i] \in DOMAIN d
         THEN <<(<<KeyOrder[i], d[KeyOrder[i]]>>)>> \o MembersFrom(d, i + 1)
         ELSE MembersFrom(d, i + 1)

\* a slip: the first key of the order left out
json_dumps_from_second(d) == MembersFrom(d, 2)

json_dumps(d) == MembersFrom(d, 1)

json_loads(text) ==
    [k \in {text[i][1] : i \in 1..Len(text)} |->
        text[CHOOSE i \in 1..Len(text) :
                /\ text[i][1] = k
                /\ \A j \in (i + 1)..Len(text) : text[j][1] # k][2]]

NoFile == [kind |-> "absent", text |-> <<>>]
GarbageFile == [kind |-> "garbage", text |-> <<>>]      \* not JSON (also: cut short)
NonObjectFile == [kind |-> "json_other", text |-> <<>>]  \* JSON, but no object
ObjectFile(text) == [kind |-> "json_object", text |-> text]

\* read_user_config(path), the file being f
read_user_config(p, f) ==
    IF p = "" THEN EmptyDict
    ELSE IF f.kind = "absent" THEN EmptyDict
    ELSE IF f.kind = "garbage" THEN EmptyDict
    ELSE IF f.kind # "json_object" THEN EmptyDict
    ELSE json_loads(f.text)

-----------------------------------------------------------------------------
(* The operations, each from a machine record m to the set of records it   *)
(* can end in.  A record that holds an exception ends the operation: the   *)
(* statements after the one that raised are not run.                       *)

Machine(cmd, uc, f, p) ==
    [cmd |-> cmd, uc |-> uc, disk |-> f, path |-> p, err |-> "none", steps |-> 0,
     write_errors |-> 0]

\* a slip: the old value copied over a value the new key already holds
RECURSIVE rename_config_keys_overwriting(_, _)
rename_config_keys_overwriting(config, keypairs) ==
    IF keypairs = <<>> THEN config
    ELSE LET old_key == keypairs[1][1]
             new_key == keypairs[1][2]
         IN  rename_config_keys_overwriting(
                 IF old_key \in DOMAIN config
                 THEN DictPop(DictSet(config, new_key, config[old_key]), old_key)
                 ELSE config,
                 Tail(keypairs))

\* rename_config_keys(config, keypairs): keypairs as a sequence of <<old, new>>
RECURSIVE rename_config_keys(_, _)
rename_config_keys(config, keypairs) ==
    IF keypairs = <<>> THEN config
    ELSE LET old_key == keypairs[1][1]
             new_key == keypairs[1][2]
             copied == IF new_key \notin DOMAIN config
                       THEN DictSet(config, new_key, config[old_key])
                       ELSE config
         IN  rename_config_keys(
                 IF old_key \in DOMAIN config THEN DictPop(copied, old_key) ELSE config,
                 Tail(keypairs))

\* what rename_config_keys returns: updated, True once an old key was found
RECURSIVE rename_config_keys_updated(_, _)
rename_config_keys_updated(config, keypairs) ==
    IF keypairs = <<>> THEN FALSE
    ELSE \/ keypairs[1][1] \in DOMAIN config
         \/ rename_config_keys_updated(
                rename_config_keys(config, <<keypairs[1]>>), Tail(keypairs))

\* a slip: a key the override layer maps to None taken as modifiable
is_modifiable_unless_none(m, key) == DictGet(m.cmd, key, VNull) = VNull

is_modifiable(m, key) == key \notin DOMAIN m.cmd

\* save_user_config: open(path, "w"), f.write(s) and os.chmod may each raise
save_user_config(m) ==
    IF m.path = "" THEN {m}
    ELSE LET s == json_dumps(m.uc) IN
         { [m EXCEPT !.disk = ObjectFile(s)],
           [m EXCEPT !.err = "OSError", !.write_errors = @ + 1],
           [m EXCEPT !.disk = GarbageFile, !.err = "OSError", !.write_errors = @ + 1],
           [m EXCEPT !.disk = ObjectFile(s), !.err = "OSError", !.write_errors = @ + 1] }

\* a slip: None stored instead of the key being removed
_set_key_storing_none(m, key, value, save) ==
    LET m1 == [m EXCEPT !.uc = DictSet(@, key, value)]
    IN  IF save THEN save_user_config(m1) ELSE {m1}

_set_key_in_user_config(m, key, value, save) ==
    LET m1 == IF value # VNull
              THEN [m EXCEPT !.uc = DictSet(@, key, value)]
              ELSE [m EXCEPT !.uc = DictPop(@, key)]
    IN  IF save THEN save_user_config(m1) ELSE {m1}

set_key(m, key, value, save) ==
    IF ~is_modifiable(m, key) THEN {m}
    ELSE _set_key_in_user_config(m, key, value, save)

\* a slip: the override layer answers for every key it holds, None included
get_any_override(m, key, default) ==
    IF key \in DOMAIN m.cmd THEN m.cmd[key] ELSE DictGet(m.uc, key, default)

\* a slip: the layers read in the wrong order
get_persisted_first(m, key, default) ==
    IF key \in DOMAIN m.uc THEN m.uc[key]
    ELSE LET o == DictGet(m.cmd, key, VNull) IN IF o = VNull THEN default ELSE o

get(m, key, default) ==
    LET o == DictGet(m.cmd, key, VNull) IN
    IF o = VNull THEN DictGet(m.uc, key, default) ELSE o

\* get_config_version: the version, or "TypeError" from "config_version > 2"
get_config_version(m) ==
    LET config_version == get(m, "config_version", VInt(1)) IN
    IF IsNumber(config_version)
    THEN [err |-> "none", version |-> NumOf(config_version)]
    ELSE [err |-> "TypeError", version |-> 0]

\* requires_upgrade: "yes", "no", or the exception
requires_upgrade(m) ==
    LET r == get_config_version(m) IN
    IF r.err # "none" THEN r.err
    ELSE IF r.version < FINAL_CONFIG_VERSION THEN "yes" ELSE "no"

\* a slip: a step taken as needed while the keys it migrates are there
_is_upgrade_method_needed_by_keys(m, min_version, max_version) ==
    LET r == get_config_version(m) IN
    IF r.err # "none" THEN r.err
    ELSE IF r.version < min_version THEN "BaseException"
    ELSE IF r.version > max_version /\ DOMAIN m.uc \cap {"server", "auto_cycle"} = {} THEN "no"
    ELSE "yes"

\* a slip: a version below the range skipped like one above it
_is_upgrade_method_needed_lenient(m, min_version, max_version) ==
    LET r == get_config_version(m) IN
    IF r.err # "none" THEN r.err
    ELSE IF r.version > max_version \/ r.version < min_version THEN "no"
    ELSE "yes"

\* _is_upgrade_method_needed: "yes", "no", or the exception
_is_upgrade_method_needed(m, min_version, max_version) ==
    LET r == get_config_version(m) IN
    IF r.err # "none" THEN r.err
    ELSE IF r.version > max_version THEN "no"
    ELSE IF r.version < min_version THEN "BaseException"
    ELSE "yes"

\* lines 240-244: the server string of the layer uc re-encoded as
\* host:port:s, or the exception the parsing raises
server_to_ssl(uc) ==
    LET server_str == DictGet(uc, "server", VNull)
        parts == rsplit(PyStr(server_str), Colon, 2)
    IN  IF Len(parts) # 3 THEN [err |-> "ValueError", value |-> VNull]
        ELSE IF parts[3] \notin {<<"s">>, <<"t">>} THEN [err |-> "AssertionError", value |-> VNull]
        ELSE IF ~IntParses(parts[2]) THEN [err |-> "ValueError", value |-> VNull]
        ELSE [err |-> "none",
              value |-> VStr(parts[1] \o <<Colon>> \o parts[2] \o <<Colon, "s">>)]

\* the try block of convert_version_2: what it ends in, err being the
\* exception that reaches "except BaseException"
convert_server(m) ==
    LET r == server_to_ssl(m.uc) IN
    IF r.err # "none" THEN {[m EXCEPT !.err = r.err]}
    ELSE _set_key_in_user_config(m, "server", r.value, TRUE)

convert_version_2(m) ==
    LET needed == _is_upgrade_method_needed(m, 1, 1) IN
    IF needed = "no" THEN {m}
    ELSE IF needed # "yes" THEN {[m EXCEPT !.err = needed]}
    ELSE LET m1 == [m EXCEPT
                       !.uc = rename_config_keys(@, <<(<<"auto_cycle", "auto_connect">>)>>),
                       !.steps = @ + 1]
             handled == UNION { IF t.err = "none" THEN {t}
                                ELSE _set_key_in_user_config(
                                         [t EXCEPT !.err = "none"], "server", VNull, TRUE)
                                : t \in convert_server(m1) }
         IN  UNION { IF m2.err = "none"
                     THEN set_key(m2, "config_version", VInt(2), TRUE)
                     ELSE {m2}
                     : m2 \in handled }

\* a slip: the version left to the migration steps
upgrade_steps_only(m) == convert_version_2(m)

upgrade(m) ==
    UNION { IF m1.err = "none"
            THEN set_key(m1, "config_version", VInt(FINAL_CONFIG_VERSION), TRUE)
            ELSE {m1}
            : m1 \in convert_version_2(m) }

\* electrum_path: the data directory, which make_dir has created
electrum_path == "datadir"

\* SimpleConfig(options), the config file being f.  The directory function is
\* injected (self.user_dir != user_dir), so upgrade_location returns at once
\* and path_upgraded_from stays None.
SimpleConfig(opts, f) ==
    LET cmd0 == DictPop(opts, "config_version")
        p == electrum_path
        loaded == read_user_config(p, f)
        uc0 == IF loaded = EmptyDict
               THEN [k \in {"config_version"} |-> VInt(FINAL_CONFIG_VERSION)]
               ELSE loaded
        cmd1 == rename_config_keys(cmd0, <<(<<"auto_cycle", "auto_connect">>)>>)
        m0 == Machine(cmd1, uc0, f, p)
        r == requires_upgrade(m0)
    IN  IF r = "yes" THEN upgrade(m0)
        ELSE IF r = "no" THEN {m0}
        ELSE {[m0 EXCEPT !.err = r]}

\* a slip: the last wallet stored as the wallet_path option
open_last_wallet_as_wallet_path(m, exists) ==
    IF get(m, "wallet_path", VNull) = VNull
    THEN LET last_wallet == get(m, "gui_last_wallet", VNull) IN
         IF last_wallet # VNull /\ exists
         THEN [m EXCEPT !.cmd = DictSet(@, "wallet_path", last_wallet)]
         ELSE m
    ELSE m

\* open_last_wallet, os.path.exists(last_wallet) being exists
open_last_wallet(m, exists) ==
    IF get(m, "wallet_path", VNull) = VNull
    THEN LET last_wallet == get(m, "gui_last_wallet", VNull) IN
         IF last_wallet # VNull /\ exists
         THEN [m EXCEPT !.cmd = DictSet(@, "default_wallet_path", last_wallet)]
         ELSE m
    ELSE m

\* save_last_wallet(wallet), wallet.storage.path being wallet_file
save_last_wallet(m, wallet_file) ==
    IF get(m, "wallet_path", VNull) = VNull
    THEN set_key(m, "gui_last_wallet", wallet_file, TRUE)
    ELSE {m}

-----------------------------------------------------------------------------
(* Fee estimates *)

\* lib/bitcoin.py is imported by simple_config.py; the targets are the ones
\* the fee cache is described with, slowest first
MAX_FEE_RATE == 20000
FEE_TARGETS == <<25, 10, 6, 2>>

fee_rates == <<1000, 2000, 3000, 4000, 5000, 6000, 7000, 8000, 9000, 10000>>

\* self.fee_estimates is a dict: a sequence of <<key, value>> in insertion
\* order, assigning to a key it holds keeps the key's place
EstKeys(est) == {est[i][1] : i \in 1..Len(est)}
EstGet(est, j) ==
    IF j \in EstKeys(est)
    THEN VInt(est[CHOOSE i \in 1..Len(est) : est[i][1] = j][2])
    ELSE VNull
EstSet(est, key, value) ==
    IF key \in EstKeys(est)
    THEN [i \in 1..Len(est) |-> IF est[i][1] = key THEN <<key, value>> ELSE est[i]]
    ELSE Append(est, <<key, value>>)

\* abs
Abs(x) == IF x < 0 THEN 0 - x ELSE x

\* min(range(len(dist)), key=dist.__getitem__): the index of the first of
\* the smallest entries, later entries replace it only when smaller
RECURSIVE MinFrom(_, _, _)
MinFrom(dist, i, best) ==
    IF i > Len(dist) THEN best
    ELSE MinFrom(dist, i + 1, IF dist[i] < dist[best] THEN i ELSE best)
PyMinIndex(dist) == MinFrom(dist, 2, 1)

max_fee_rate(m) ==
    LET f == get(m, "max_fee_rate", VInt(MAX_FEE_RATE)) IN
    IF IsNumber(f) /\ NumOf(f) = 0 THEN VInt(MAX_FEE_RATE) ELSE f

\* dynfee(i) for i in 0..4; the fees of the model are even, so that fee/2
\* is the integer fee \div 2
dynfee(est, i) ==
    LET fee == IF i < 4
               THEN EstGet(est, FEE_TARGETS[i + 1])
               ELSE LET f2 == EstGet(est, 2) IN
                    IF f2 # VNull THEN VInt(f2.n + f2.n \div 2) ELSE f2
    IN  IF fee # VNull
        THEN VInt(IF 5 * MAX_FEE_RATE < fee.n THEN 5 * MAX_FEE_RATE ELSE fee.n)
        ELSE fee

\* reverse_dynfee(fee_per_kb): [err, value]; None - fee_per_kb and None/2
\* raise TypeError
reverse_dynfee(est, fee_per_kb) ==
    LET d4 == dynfee(est, 4)
        e25 == EstGet(est, 25)
    IN  IF d4 = VNull \/ e25 = VNull
        THEN [err |-> "TypeError", value |-> VNull]
        ELSE LET l == Append(est, <<1, d4.n>>)
                 dist == [i \in 1..Len(l) |-> Abs(l[i][2] - fee_per_kb)]
                 min_target == l[PyMinIndex(dist)][1]
             IN  [err |-> "none",
                  value |-> VInt(IF 2 * fee_per_kb < e25.n THEN 0 - 1 ELSE min_target)]

static_fee(i) == fee_rates[i + 1]

\* a slip: the distance taken without abs
static_fee_index_signed(value) ==
    LET dist == [i \in 1..Len(fee_rates) |-> fee_rates[i] - value] IN
    PyMinIndex(dist) - 1

\* static_fee_index(value), an index from 0
static_fee_index(value) ==
    LET dist == [i \in 1..Len(fee_rates) |-> Abs(fee_rates[i] - value)] IN
    PyMinIndex(dist) - 1

has_fee_estimates(est) == Len(est) = 4

\* a slip: the time stamp written only for a target that had none
update_fee_estimates_stamp_once(est, updated, key, value, t) ==
    [est |-> EstSet(est, key, value),
     updated |-> [k \in DOMAIN updated \cup {key} |->
                     IF k \in DOMAIN updated THEN updated[k] ELSE t]]

\* update_fee_estimates(key, value) at time t: the new cache and time stamps
update_fee_estimates(est, updated, key, value, t) ==
    [est |-> EstSet(est, key, value),
     updated |-> [k \in DOMAIN updated \cup {key} |-> IF k = key THEN t ELSE updated[k]]]

\* a slip: one of the two conditions is enough
is_fee_estimates_update_required_either(updated, requested, t) ==
    LET prev_updates == {updated[k] : k \in DOMAIN updated}
        oldest_fee_time == IF prev_updates # {}
                           THEN CHOOSE x \in prev_updates : \A y \in prev_updates : x <= y
                           ELSE 0
        stale_fees == t - oldest_fee_time > 1200
        old_request == t - requested > 60
    IN  stale_fees \/ old_request

\* a slip: the newest time stamp taken instead of the oldest
is_fee_estimates_update_required_newest(updated, requested, t) ==
    LET prev_updates == {updated[k] : k \in DOMAIN updated}
        newest_fee_time == IF prev_updates # {}
                           THEN CHOOSE x \in prev_updates : \A y \in prev_updates : x >= y
                           ELSE 0
        stale_fees == t - newest_fee_time > 1200
        old_request == t - requested > 60
    IN  stale_fees /\ old_request

\* is_fee_estimates_update_required() at time t
is_fee_estimates_update_required(updated, requested, t) ==
    LET prev_updates == {updated[k] : k \in DOMAIN updated}
        oldest_fee_time == IF prev_updates # {}
                           THEN CHOOSE x \in prev_updates : \A y \in prev_updates : x <= y
                           ELSE 0
        stale_fees == t - oldest_fee_time > 1200
        old_request == t - requested > 60
    IN  stale_fees /\ old_request

\* requested_fee_estimates() at time t
requested_fee_estimates(t) == t

-----------------------------------------------------------------------------
(* Inputs *)

MaxVersion == 3

SrvT == <<"h", ":", "1", ":", "t">>
SrvS == <<"h", ":", "1", ":", "s">>
SrvBad == <<"h", ":", "x", ":", "t">>
SrvO == <<"o", ":", "2", ":", "s">>
WalletFile == <<"w">>
OtherText == <<"d">>

\* what a config file may hold under each key
FileValues(k) ==
    CASE k = "config_version" -> {VInt(n) : n \in (0 - 1)..MaxVersion} \cup {VNull}
      [] k = "server" -> {VStr(SrvT), VStr(SrvBad)}
      [] k = "auto_cycle" -> {VBool(TRUE)}
      [] OTHER -> {}

FileKeys == {"config_version", "server", "auto_cycle"}
FileRange == UNION {FileValues(k) : k \in FileKeys}
FileDicts ==
    UNION { {d \in [S -> FileRange] : \A k \in S : d[k] \in FileValues(k)} : S \in SUBSET FileKeys }

Files == {NoFile, GarbageFile, NonObjectFile} \cup {ObjectFile(json_dumps(d)) : d \in FileDicts}

\* the options a process is started with
OptionSets ==
    { EmptyDict,
      [k \in {"config_version", "server"} |->
          IF k = "server" THEN VStr(SrvO) ELSE VInt(MaxVersion)],
      [k \in {"auto_cycle", "server", "wallet_path"} |->
          IF k = "auto_cycle" THEN VBool(TRUE) ELSE VNull],
      [k \in {"wallet_path"} |-> VStr(WalletFile)] }

\* the config files of a store whose keys get renamed: written by a release
\* that knew auto_cycle, by one that knows auto_connect, or by both in turn
RenameValues(k) ==
    CASE k = "config_version" -> {VInt(FINAL_CONFIG_VERSION)}
      [] k = "server" -> {VStr(SrvT)}
      [] k = "auto_cycle" -> {VBool(TRUE)}
      [] k = "auto_connect" -> {VBool(FALSE)}
      [] OTHER -> {}
RenameKeys == {"config_version", "server", "auto_cycle", "auto_connect"}
RenameDicts ==
    UNION { {d \in [S -> UNION {RenameValues(k) : k \in RenameKeys}] :
                 \A k \in S : d[k] \in RenameValues(k)} : S \in SUBSET RenameKeys }
RenameFiles == {ObjectFile(json_dumps(d)) : d \in RenameDicts}

\* the keypairs rename_config_keys is called with; no key is in two pairs
KeyPairs ==
    << <<(<<"auto_cycle", "auto_connect">>)>>,
       <<(<<"server", "gui_last_wallet">>)>>,
       <<(<<"auto_cycle", "auto_connect">>), (<<"server", "gui_last_wallet">>)>> >>

\* the arguments of set_key and get
SetInputs ==
    { <<"server", VStr(SrvT)>>, <<"server", VNull>>,
      <<"config_version", VNull>>, <<"config_version", VInt(0)>>,
      <<"gui_last_wallet", VStr(WalletFile)>> }
GetKeys == {"server", "config_version", "auto_connect", "gui_last_wallet"}
GetDefaults == {VNull, VStr(OtherText)}

\* time.time() when the store is constructed, and how far the clock moves
\* between two calls
StartTime == 1790000000
MaxTicks == 3
Delays == {60, 61, 1140}

\* the fees a server reports, the arguments of the fee methods
Targets == {FEE_TARGETS[i] : i \in 1..Len(FEE_TARGETS)}
Rates == {4000, 120000}
RefreshTargets == {2, 25}
RefreshRates == {4000, 120000}
FeePerKb == {1000, 5000, 100000, 150000}
StaticValues ==
    {0 - 100, 0, 10500, 20000}
        \cup {fee_rates[i] : i \in 1..Len(fee_rates)}
        \cup {1400, 1500, 1600, 9500}
FeeConfigs ==
    { [k \in {"config_version"} |-> VInt(2)],
      [k \in {"config_version", "max_fee_rate"} |->
          IF k = "max_fee_rate" THEN VInt(0) ELSE VInt(2)],
      [k \in {"config_version", "max_fee_rate"} |->
          IF k = "max_fee_rate" THEN VInt(10000) ELSE VInt(2)] }

-----------------------------------------------------------------------------
(* The state machine *)

NoCall == [op |-> "none", key |-> "", value |-> VNull, save |-> FALSE, value2 |-> VNull]
Call(op, key, value, save) ==
    [op |-> op, key |-> key, value |-> value, save |-> save, value2 |-> VNull]
\* a call of a fee method: its arguments are numbers
FeeCall(op, a, b) == [op |-> op, key |-> "", value |-> a, save |-> FALSE, value2 |-> b]

\* the store as the machine record the operations work on
cur == Machine(cmdline_options, user_config, disk, path)

\* the operation ended in m
Commit(m) ==
    /\ cmdline_options' = m.cmd
    /\ user_config' = m.uc
    /\ disk' = m.disk
    /\ path' = m.path
    /\ err' = m.err
    /\ steps' = m.steps
    /\ write_errors' = m.write_errors

\* self.lock = threading.RLock(): owner 0 is nobody
Unlocked == [owner |-> 0, count |-> 0]

\* the threads that call into the store, and a thread that is in no call
Threads == {1, 2}
NoThread ==
    [op |-> "none", key |-> "", value |-> VNull, target |-> 0, site |-> "",
     pc |-> "done", s |-> <<>>, err |-> "none", out |-> VNull]

\* __init__ leaves the fee cache empty; the clock reads StartTime; no thread
\* is in a call
FeeInit ==
    /\ fee_estimates = <<>>
    /\ fee_estimates_last_updated = [k \in {} |-> 0]
    /\ last_time_fee_estimates_requested = 0
    /\ now = StartTime
    /\ ticks = 0
    /\ threads = [t \in Threads |-> NoThread]
    /\ lock = Unlocked

Init ==
    /\ phase = "new"
    /\ options = EmptyDict
    /\ path = ""
    /\ cmdline_options = EmptyDict
    /\ user_config = EmptyDict
    /\ disk \in Files
    /\ last = NoCall
    /\ out = VNull
    /\ err = "none"
    /\ steps = 0
    /\ write_errors = 0
    /\ FeeInit

Construct ==
    /\ phase = "new"
    /\ \E opts \in OptionSets :
          /\ options' = opts
          /\ \E m \in SimpleConfig(opts, disk) :
                /\ Commit(m)
                /\ phase' = IF m.err = "none" THEN "ready" ELSE "failed"
    /\ last' = Call("init", "", VNull, FALSE)
    /\ out' = VNull
    /\ UNCHANGED <<feeVars, clockVars, threadVars>>

SetKey ==
    /\ phase = "ready"
    /\ \E kv \in SetInputs, save \in BOOLEAN :
          /\ \E m \in set_key(cur, kv[1], kv[2], save) : Commit(m)
          /\ last' = Call("set_key", kv[1], kv[2], save)
    /\ out' = VNull
    /\ UNCHANGED <<phase, options, feeVars, clockVars, threadVars>>

Get ==
    /\ phase = "ready"
    /\ \E key \in GetKeys, default \in GetDefaults :
          /\ out' = get(cur, key, default)
          /\ last' = Call("get", key, default, FALSE)
    /\ Commit(cur)
    /\ UNCHANGED <<phase, options, feeVars, clockVars, threadVars>>

Upgrade ==
    /\ phase = "ready"
    /\ \E m \in upgrade(cur) : Commit(m)
    /\ last' = Call("upgrade", "", VNull, FALSE)
    /\ out' = VNull
    /\ UNCHANGED <<phase, options, feeVars, clockVars, threadVars>>

OpenLastWallet ==
    /\ phase = "ready"
    /\ \E exists \in BOOLEAN : Commit(open_last_wallet(cur, exists))
    /\ last' = Call("open_last_wallet", "", VNull, FALSE)
    /\ out' = VNull
    /\ UNCHANGED <<phase, options, feeVars, clockVars, threadVars>>

SaveLastWallet ==
    /\ phase = "ready"
    /\ \E m \in save_last_wallet(cur, VStr(WalletFile)) : Commit(m)
    /\ last' = Call("save_last_wallet", "", VStr(WalletFile), FALSE)
    /\ out' = VNull
    /\ UNCHANGED <<phase, options, feeVars, clockVars, threadVars>>

Next ==
    \/ Construct
    \/ SetKey
    \/ Get
    \/ Upgrade
    \/ OpenLastWallet
    \/ SaveLastWallet

Spec == Init /\ [][Next]_vars

-----------------------------------------------------------------------------
(* The renaming of keys: a store constructed on one of RenameFiles, and     *)
(* rename_config_keys called on its persisted layer                         *)

RenameConfigKeys ==
    /\ phase = "ready"
    /\ \E i \in 1..Len(KeyPairs) :
          /\ user_config' = rename_config_keys(user_config, KeyPairs[i])
          /\ out' = VBool(rename_config_keys_updated(user_config, KeyPairs[i]))
          /\ last' = Call("rename_config_keys", "", VInt(i), FALSE)
    /\ err' = "none"
    /\ steps' = 0
    /\ UNCHANGED <<phase, options, path, cmdline_options, disk, write_errors,
                   feeVars, clockVars, threadVars>>

InitRename ==
    /\ phase = "new"
    /\ options = EmptyDict
    /\ path = ""
    /\ cmdline_options = EmptyDict
    /\ user_config = EmptyDict
    /\ disk \in RenameFiles
    /\ last = NoCall
    /\ out = VNull
    /\ err = "none"
    /\ steps = 0
    /\ write_errors = 0
    /\ FeeInit

NextRename ==
    \/ Construct
    \/ SetKey
    \/ Upgrade
    \/ RenameConfigKeys

SpecRename == InitRename /\ [][NextRename]_vars

-----------------------------------------------------------------------------
(* The fee methods of a store that was constructed on one of FeeConfigs *)

InitFee ==
    /\ phase = "ready"
    /\ options = EmptyDict
    /\ \E d \in FeeConfigs :
          \E m \in SimpleConfig(EmptyDict, ObjectFile(json_dumps(d))) :
             /\ m.err = "none"
             /\ cmdline_options = m.cmd
             /\ user_config = m.uc
             /\ disk = m.disk
             /\ path = m.path
             /\ steps = m.steps
             /\ write_errors = m.write_errors
    /\ last = NoCall
    /\ out = VNull
    /\ err = "none"
    /\ FeeInit

UpdateFeeEstimates(keys, values) ==
    /\ \E key \in keys, value \in values :
          LET r == update_fee_estimates(fee_estimates, fee_estimates_last_updated,
                                        key, value, now)
          IN  /\ fee_estimates' = r.est
              /\ fee_estimates_last_updated' = r.updated
              /\ last' = FeeCall("update_fee_estimates", VInt(key), VInt(value))
    /\ out' = VNull
    /\ err' = "none"
    /\ UNCHANGED <<cfgVars, last_time_fee_estimates_requested, clockVars, threadVars>>

MaxFeeRate ==
    /\ out' = max_fee_rate(cur)
    /\ last' = FeeCall("max_fee_rate", VNull, VNull)
    /\ err' = "none"
    /\ UNCHANGED <<cfgVars, feeVars, clockVars, threadVars>>

Dynfee ==
    /\ \E i \in 0..4 :
          /\ out' = dynfee(fee_estimates, i)
          /\ last' = FeeCall("dynfee", VInt(i), VNull)
    /\ err' = "none"
    /\ UNCHANGED <<cfgVars, feeVars, clockVars, threadVars>>

ReverseDynfee ==
    /\ \E fee_per_kb \in FeePerKb :
          LET r == reverse_dynfee(fee_estimates, fee_per_kb) IN
          /\ out' = r.value
          /\ err' = r.err
          /\ last' = FeeCall("reverse_dynfee", VInt(fee_per_kb), VNull)
    /\ UNCHANGED <<cfgVars, feeVars, clockVars, threadVars>>

StaticFeeIndex ==
    /\ \E value \in StaticValues :
          /\ out' = VInt(static_fee_index(value))
          /\ last' = FeeCall("static_fee_index", VInt(value), VNull)
    /\ err' = "none"
    /\ UNCHANGED <<cfgVars, feeVars, clockVars, threadVars>>

HasFeeEstimates ==
    /\ out' = VBool(has_fee_estimates(fee_estimates))
    /\ last' = FeeCall("has_fee_estimates", VNull, VNull)
    /\ err' = "none"
    /\ UNCHANGED <<cfgVars, feeVars, clockVars, threadVars>>

NextFee ==
    \/ UpdateFeeEstimates(Targets, Rates)
    \/ MaxFeeRate
    \/ Dynfee
    \/ ReverseDynfee
    \/ StaticFeeIndex
    \/ HasFeeEstimates

SpecFee == InitFee /\ [][NextFee]_vars

-----------------------------------------------------------------------------
(* The refresh policy of the fee cache, the clock moving between calls *)

\* time passes; no call is made
Tick ==
    /\ ticks < MaxTicks
    /\ \E d \in Delays : now' = now + d
    /\ ticks' = ticks + 1
    /\ last' = NoCall
    /\ out' = VNull
    /\ err' = "none"
    /\ UNCHANGED <<cfgVars, feeVars, threadVars>>

RequestedFeeEstimates ==
    /\ last_time_fee_estimates_requested' = requested_fee_estimates(now)
    /\ last' = FeeCall("requested_fee_estimates", VNull, VNull)
    /\ out' = VNull
    /\ err' = "none"
    /\ UNCHANGED <<cfgVars, fee_estimates, fee_estimates_last_updated, clockVars, threadVars>>

IsFeeEstimatesUpdateRequired ==
    /\ out' = VBool(is_fee_estimates_update_required(
                       fee_estimates_last_updated, last_time_fee_estimates_requested, now))
    /\ last' = FeeCall("is_fee_estimates_update_required", VNull, VNull)
    /\ err' = "none"
    /\ UNCHANGED <<cfgVars, feeVars, clockVars, threadVars>>

InitRefresh ==
    /\ InitFee
    /\ "max_fee_rate" \notin DOMAIN user_config

NextRefresh ==
    \/ Tick
    \/ UpdateFeeEstimates(RefreshTargets, RefreshRates)
    \/ RequestedFeeEstimates
    \/ IsFeeEstimatesUpdateRequired

SpecRefresh == InitRefresh /\ [][NextRefresh]_vars

-----------------------------------------------------------------------------
(* Threads.  Two threads call into one store; a step of a thread is what   *)
(* it does between two places where the interpreter may switch threads.    *)
(* threads[t] holds the call thread t is in (op, key, value, target), the  *)
(* place it has reached (pc), for a set_key made inside upgrade the call   *)
(* site it returns to (site), the text save_user_config has built (s), the *)
(* exception that is propagating (err) and what a read returned (out).     *)

\* a slip: the lock handed out while another thread holds it
CanAcquire_anyone(lk, t) == TRUE

\* a slip: a plain Lock, which its owner cannot take again
CanAcquire_once(lk, t) == lk.owner = 0

\* RLock.acquire returns when nobody else owns the lock
CanAcquire(lk, t) == lk.owner \in {0, t}
Acquire(lk, t) == [owner |-> t, count |-> lk.count + 1]
\* RLock.release, also what leaving "with self.lock" does when an exception
\* propagates
Release(lk) == IF lk.count <= 1 THEN Unlocked ELSE [lk EXCEPT !.count = @ - 1]

\* thread t goes on as r
Becomes(t, r) == threads' = [threads EXCEPT ![t] = r]

\* what no step of a thread changes
ThreadFrame ==
    UNCHANGED <<phase, options, path, cmdline_options, steps, write_errors,
                last, out, err, last_time_fee_estimates_requested, clockVars>>

\* the thread after _set_key_in_user_config or set_key has returned, or
\* raised r.err, at its call site
AfterSet(r) ==
    IF r.err = "none"
    THEN CASE r.site \in {"server", "except"} -> [r EXCEPT !.pc = "up_version"]
           [] r.site = "version" -> [r EXCEPT !.pc = "up_final"]
           [] r.site = "final" -> [r EXCEPT !.pc = "up_unlock"]
           [] OTHER -> [r EXCEPT !.pc = "done"]
    ELSE CASE r.site = "server" ->
                \* except BaseException: self._set_key_in_user_config('server', None)
                [r EXCEPT !.err = "none", !.site = "except", !.key = "server",
                          !.value = VNull, !.pc = "set_lock"]
           [] r.site \in {"except", "version", "final"} -> [r EXCEPT !.pc = "up_unlock"]
           [] OTHER -> [r EXCEPT !.pc = "done"]

(* get(key) *)

GetLock(t) ==
    /\ threads[t].pc = "get_lock"
    /\ CanAcquire(lock, t)
    /\ lock' = Acquire(lock, t)
    /\ Becomes(t, [threads[t] EXCEPT !.pc = "get_read"])
    /\ UNCHANGED <<user_config, disk, feeVars>>
    /\ ThreadFrame

GetRead(t) ==
    /\ threads[t].pc = "get_read"
    /\ Becomes(t, [threads[t] EXCEPT !.out = get(cur, threads[t].key, VNull),
                                     !.pc = "get_unlock"])
    /\ UNCHANGED <<user_config, disk, feeVars, lock>>
    /\ ThreadFrame

GetUnlock(t) ==
    /\ threads[t].pc = "get_unlock"
    /\ lock' = Release(lock)
    /\ Becomes(t, [threads[t] EXCEPT !.pc = "done"])
    /\ UNCHANGED <<user_config, disk, feeVars>>
    /\ ThreadFrame

(* set_key(key, value, save=True) and _set_key_in_user_config *)

SetCheck(t) ==
    /\ threads[t].pc = "set_check"
    /\ Becomes(t, IF is_modifiable(cur, threads[t].key)
                  THEN [threads[t] EXCEPT !.pc = "set_lock"]
                  ELSE AfterSet(threads[t]))
    /\ UNCHANGED <<user_config, disk, feeVars, lock>>
    /\ ThreadFrame

SetLock(t) ==
    /\ threads[t].pc = "set_lock"
    /\ CanAcquire(lock, t)
    /\ lock' = Acquire(lock, t)
    /\ Becomes(t, [threads[t] EXCEPT !.pc = "set_store"])
    /\ UNCHANGED <<user_config, disk, feeVars>>
    /\ ThreadFrame

SetStore(t) ==
    /\ threads[t].pc = "set_store"
    /\ user_config' = IF threads[t].value # VNull
                      THEN DictSet(user_config, threads[t].key, threads[t].value)
                      ELSE DictPop(user_config, threads[t].key)
    /\ Becomes(t, [threads[t] EXCEPT !.pc = "set_dumps"])
    /\ UNCHANGED <<disk, feeVars, lock>>
    /\ ThreadFrame

\* save_user_config: s = json.dumps(self.user_config, ...)
SetDumps(t) ==
    /\ threads[t].pc = "set_dumps"
    /\ Becomes(t, IF path = ""
                  THEN [threads[t] EXCEPT !.pc = "set_unlock"]
                  ELSE [threads[t] EXCEPT !.s = json_dumps(user_config), !.pc = "set_write"])
    /\ UNCHANGED <<user_config, disk, feeVars, lock>>
    /\ ThreadFrame

\* save_user_config: the file opened, written and chmod-ed, or OSError
SetWrite(t) ==
    /\ threads[t].pc = "set_write"
    /\ \/ /\ disk' = ObjectFile(threads[t].s)
          /\ Becomes(t, [threads[t] EXCEPT !.pc = "set_unlock"])
       \/ /\ disk' \in {disk, GarbageFile, ObjectFile(threads[t].s)}
          /\ Becomes(t, [threads[t] EXCEPT !.err = "OSError", !.pc = "set_unlock"])
    /\ UNCHANGED <<user_config, feeVars, lock>>
    /\ ThreadFrame

SetUnlock(t) ==
    /\ threads[t].pc = "set_unlock"
    /\ lock' = Release(lock)
    /\ Becomes(t, AfterSet(threads[t]))
    /\ UNCHANGED <<user_config, disk, feeVars>>
    /\ ThreadFrame

(* upgrade() *)

UpLock(t) ==
    /\ threads[t].pc = "up_lock"
    /\ CanAcquire(lock, t)
    /\ lock' = Acquire(lock, t)
    /\ Becomes(t, [threads[t] EXCEPT !.pc = "up_needed"])
    /\ UNCHANGED <<user_config, disk, feeVars>>
    /\ ThreadFrame

\* convert_version_2: _is_upgrade_method_needed(1, 1), whose get takes the
\* lock again and gives it back
UpNeeded(t) ==
    /\ threads[t].pc = "up_needed"
    /\ CanAcquire(lock, t)
    /\ LET needed == _is_upgrade_method_needed(cur, 1, 1) IN
       Becomes(t, IF needed = "no" THEN [threads[t] EXCEPT !.pc = "up_final"]
                  ELSE IF needed = "yes" THEN [threads[t] EXCEPT !.pc = "up_rename"]
                  ELSE [threads[t] EXCEPT !.err = needed, !.pc = "up_unlock"])
    /\ UNCHANGED <<user_config, disk, feeVars, lock>>
    /\ ThreadFrame

UpRename(t) ==
    /\ threads[t].pc = "up_rename"
    /\ user_config' = rename_config_keys(user_config, <<(<<"auto_cycle", "auto_connect">>)>>)
    /\ Becomes(t, [threads[t] EXCEPT !.pc = "up_server"])
    /\ UNCHANGED <<disk, feeVars, lock>>
    /\ ThreadFrame

\* the try block up to the call of _set_key_in_user_config, or up to the
\* exception that takes it to the except clause
UpServer(t) ==
    /\ threads[t].pc = "up_server"
    /\ LET r == server_to_ssl(user_config) IN
       Becomes(t, IF r.err = "none"
                  THEN [threads[t] EXCEPT !.site = "server", !.key = "server",
                                          !.value = r.value, !.pc = "set_lock"]
                  ELSE [threads[t] EXCEPT !.site = "except", !.key = "server",
                                          !.value = VNull, !.pc = "set_lock"])
    /\ UNCHANGED <<user_config, disk, feeVars, lock>>
    /\ ThreadFrame

\* self.set_key('config_version', 2)
UpVersion(t) ==
    /\ threads[t].pc = "up_version"
    /\ Becomes(t, [threads[t] EXCEPT !.site = "version", !.key = "config_version",
                                     !.value = VInt(2), !.pc = "set_check"])
    /\ UNCHANGED <<user_config, disk, feeVars, lock>>
    /\ ThreadFrame

\* self.set_key('config_version', FINAL_CONFIG_VERSION, save=True)
UpFinal(t) ==
    /\ threads[t].pc = "up_final"
    /\ Becomes(t, [threads[t] EXCEPT !.site = "final", !.key = "config_version",
                                     !.value = VInt(FINAL_CONFIG_VERSION),
                                     !.pc = "set_check"])
    /\ UNCHANGED <<user_config, disk, feeVars, lock>>
    /\ ThreadFrame

UpUnlock(t) ==
    /\ threads[t].pc = "up_unlock"
    /\ lock' = Release(lock)
    /\ Becomes(t, [threads[t] EXCEPT !.pc = "done"])
    /\ UNCHANGED <<user_config, disk, feeVars>>
    /\ ThreadFrame

(* the fee cache *)

\* update_fee_estimates: self.fee_estimates[key] = value
FeeStore(t) ==
    /\ threads[t].pc = "fee_store"
    /\ fee_estimates' =
          update_fee_estimates(fee_estimates, fee_estimates_last_updated,
                               threads[t].target, threads[t].value.n, now).est
    /\ Becomes(t, [threads[t] EXCEPT !.pc = "fee_stamp"])
    /\ UNCHANGED <<user_config, disk, fee_estimates_last_updated, lock>>
    /\ ThreadFrame

\* update_fee_estimates: self.fee_estimates_last_updated[key] = time.time()
FeeStamp(t) ==
    /\ threads[t].pc = "fee_stamp"
    /\ fee_estimates_last_updated' =
          update_fee_estimates(fee_estimates, fee_estimates_last_updated,
                               threads[t].target, threads[t].value.n, now).updated
    /\ Becomes(t, [threads[t] EXCEPT !.pc = "done"])
    /\ UNCHANGED <<user_config, disk, fee_estimates, lock>>
    /\ ThreadFrame

\* dynfee(target), has_fee_estimates() or is_fee_estimates_update_required()
FeeRead(t) ==
    /\ threads[t].pc = "fee_read"
    /\ Becomes(t, [threads[t] EXCEPT
                      !.out = CASE threads[t].op = "dynfee" ->
                                     dynfee(fee_estimates, threads[t].target)
                                [] threads[t].op = "has_fee_estimates" ->
                                     VBool(has_fee_estimates(fee_estimates))
                                [] OTHER ->
                                     VBool(is_fee_estimates_update_required(
                                               fee_estimates_last_updated,
                                               last_time_fee_estimates_requested, now)),
                      !.pc = "done"])
    /\ UNCHANGED <<user_config, disk, feeVars, lock>>
    /\ ThreadFrame

ThreadStep(t) ==
    \/ GetLock(t) \/ GetRead(t) \/ GetUnlock(t)
    \/ SetCheck(t) \/ SetLock(t) \/ SetStore(t) \/ SetDumps(t) \/ SetWrite(t) \/ SetUnlock(t)
    \/ UpLock(t) \/ UpNeeded(t) \/ UpRename(t) \/ UpServer(t) \/ UpVersion(t) \/ UpFinal(t)
    \/ UpUnlock(t)
    \/ FeeStore(t) \/ FeeStamp(t) \/ FeeRead(t)

\* the calls two threads make at the same time
GetCall(key) == [NoThread EXCEPT !.op = "get", !.key = key, !.pc = "get_lock"]
SetCall(key, value) ==
    [NoThread EXCEPT !.op = "set_key", !.key = key, !.value = value, !.site = "set",
                     !.pc = "set_check"]
UpgradeCall == [NoThread EXCEPT !.op = "upgrade", !.pc = "up_lock"]
UpdateCall(target, value) ==
    [NoThread EXCEPT !.op = "update_fee_estimates", !.target = target,
                     !.value = VInt(value), !.pc = "fee_store"]
ReadCall(op, i) == [NoThread EXCEPT !.op = op, !.target = i, !.pc = "fee_read"]

ThreadCalls ==
    { <<UpgradeCall, GetCall("server")>>,
      <<UpgradeCall, GetCall("config_version")>>,
      <<UpgradeCall, SetCall("gui_last_wallet", VStr(WalletFile))>>,
      <<UpgradeCall, SetCall("server", VStr(SrvO))>>,
      <<SetCall("server", VStr(SrvO)), SetCall("gui_last_wallet", VStr(WalletFile))>>,
      <<SetCall("auto_connect", VBool(FALSE)), SetCall("server", VNull)>>,
      <<SetCall("gui_last_wallet", VStr(WalletFile)), GetCall("gui_last_wallet")>>,
      <<UpdateCall(2, 4000), ReadCall("dynfee", 3)>>,
      <<UpdateCall(25, 4000), ReadCall("has_fee_estimates", 0)>>,
      <<UpdateCall(2, 120000), ReadCall("is_fee_estimates_update_required", 0)>> }

\* the persisted layer the calls find: one that set_key calls have left
\* without a version (read as version 1), and an upgraded one
ThreadLayers ==
    { [k \in {"auto_cycle", "server"} |-> IF k = "server" THEN VStr(SrvT) ELSE VBool(TRUE)],
      [k \in {"server"} |-> VStr(SrvBad)],
      [k \in {"config_version"} |-> VInt(FINAL_CONFIG_VERSION)] }

InitThreads ==
    /\ phase = "ready"
    /\ options = EmptyDict
    /\ path = electrum_path
    /\ cmdline_options = EmptyDict
    /\ user_config \in ThreadLayers
    /\ disk = ObjectFile(json_dumps(user_config))
    /\ steps = 0
    /\ write_errors = 0
    /\ last = NoCall
    /\ out = VNull
    /\ err = "none"
    /\ fee_estimates = <<>>
    /\ fee_estimates_last_updated = [k \in {} |-> 0]
    /\ last_time_fee_estimates_requested = 0
    /\ now = StartTime
    /\ ticks = 0
    /\ lock = Unlocked
    /\ \E calls \in ThreadCalls : threads = [t \in Threads |-> calls[t]]

NextThreads == \E t \in Threads : ThreadStep(t)

SpecThreads == InitThreads /\ [][NextThreads]_vars

-----------------------------------------------------------------------------
(* Properties *)

\* the layered lookup as the configuration contract words it
Layered(k, d) ==
    IF k \in DOMAIN cmdline_options /\ cmdline_options[k] # VNull THEN cmdline_options[k]
    ELSE IF k \in DOMAIN user_config THEN user_config[k]
    ELSE d

\* the config file holds exactly the dict d
FileHolds(f, d) == f.kind = "json_object" /\ json_loads(f.text) = d

\* the persisted layer an upgrade starts from: the loaded file while the
\* store is being constructed, user_config afterwards
StoredLayer == IF phase = "new" THEN read_user_config(electrum_path, disk) ELSE user_config
StoredVersion == DictGet(StoredLayer, "config_version", VInt(1))

\* this step ran upgrade(): the public call, or the constructor on a loaded
\* config whose version is below FINAL_CONFIG_VERSION
UpgradeRan ==
    \/ last'.op = "upgrade"
    \/ /\ last'.op = "init"
       /\ StoredLayer # EmptyDict
       /\ IsNumber(StoredVersion)
       /\ NumOf(StoredVersion) < FINAL_CONFIG_VERSION

\* C1: set_key on a key of the override layer changes neither layer nor the
\* config file, whatever the value and the save flag, and returns normally.
C1_SetOverriddenIsNoOp ==
    [][(last'.op = "set_key" /\ last'.key \in DOMAIN cmdline_options)
          => /\ cmdline_options' = cmdline_options
             /\ user_config' = user_config
             /\ disk' = disk
             /\ err' = "none"]_vars

C1_Witness ==
    /\ last.op = "set_key"
    /\ last.key \in DOMAIN cmdline_options
    /\ last.save
    /\ last.value # VNull
    /\ DictGet(user_config, last.key, VNull) # last.value

\* C2: get(key, default) returns the override value when the key is there
\* with a non-null value, else the persisted value when the key is in the
\* persisted layer, else default; the read changes no layer and no file.
C2_GetPrecedence ==
    [][last'.op = "get"
          => /\ out' = Layered(last'.key, last'.value)
             /\ cmdline_options' = cmdline_options
             /\ user_config' = user_config
             /\ disk' = disk
             /\ err' = "none"]_vars

C2_Witness ==
    /\ last.op = "get"
    /\ last.key \in DOMAIN cmdline_options
    /\ cmdline_options[last.key] = VNull
    /\ last.key \in DOMAIN user_config
    /\ last.value # VNull
    /\ out = user_config[last.key]

\* C3 as claimed: for every key of the override layer get returns the
\* override layer's value.
C3_GetReturnsOverride ==
    (last.op = "get" /\ last.key \in DOMAIN cmdline_options)
        => out = cmdline_options[last.key]

\* C3 amended: for every key of the override layer whose value there is
\* non-null, get returns that value whatever the persisted layer and the
\* default are; a key the override layer maps to null reads as if it were
\* not overridden (the persisted value, else the default).
C3_GetReturnsNonNullOverride ==
    (last.op = "get" /\ last.key \in DOMAIN cmdline_options)
        => IF cmdline_options[last.key] # VNull
           THEN out = cmdline_options[last.key]
           ELSE out = DictGet(user_config, last.key, last.value)

C3_Witness ==
    /\ last.op = "get"
    /\ last.key \in DOMAIN cmdline_options
    /\ cmdline_options[last.key] # VNull
    /\ last.key \in DOMAIN user_config
    /\ user_config[last.key] = VStr(SrvS)
    /\ user_config[last.key] # cmdline_options[last.key]
    /\ out = cmdline_options[last.key]

\* C4: set_key on a key that is not overridden maps the key to a non-null
\* value and removes it for a null one (no error when it was absent), leaves
\* every other persisted key and the override layer alone; with save the
\* file holds the whole persisted layer when the call returns, without save
\* the file is not written.
C4_SetModifiable ==
    [][(last'.op = "set_key" /\ last'.key \notin DOMAIN cmdline_options)
          => /\ cmdline_options' = cmdline_options
             /\ IF last'.value # VNull
                THEN /\ last'.key \in DOMAIN user_config'
                     /\ user_config'[last'.key] = last'.value
                ELSE last'.key \notin DOMAIN user_config'
             /\ DOMAIN user_config' \ {last'.key} = DOMAIN user_config \ {last'.key}
             /\ \A k \in DOMAIN user_config \ {last'.key} : user_config'[k] = user_config[k]
             /\ last'.save /\ err' = "none" => FileHolds(disk', user_config')
             /\ ~last'.save => disk' = disk /\ err' = "none"]_vars

C4_Witness ==
    /\ last.op = "set_key"
    /\ last.key \notin DOMAIN cmdline_options
    /\ last.save
    /\ last.value = VNull
    /\ err = "none"
    /\ "server" \in DOMAIN user_config
    /\ FileHolds(disk, user_config)

\* C5 as claimed: once the store is constructed the persisted layer holds
\* config_version in every reachable state.
C5_VersionAlwaysPresent ==
    phase = "ready" => "config_version" \in DOMAIN user_config

\* C5 amended: a constructed store starts with config_version in the
\* persisted layer, and every operation keeps it there except
\* set_key("config_version", None), which removes it; whenever an upgrade
\* returns, config_version is FINAL_CONFIG_VERSION in memory and in the
\* file; the override layer never holds config_version.
C5_VersionPresentUnlessUnset ==
    [][/\ (last'.op = "init" /\ phase' = "ready")
             => "config_version" \in DOMAIN user_config'
       /\ (/\ phase = "ready"
           /\ "config_version" \in DOMAIN user_config
           /\ ~(last'.op = "set_key" /\ last'.key = "config_version" /\ last'.value = VNull))
             => "config_version" \in DOMAIN user_config'
       /\ (UpgradeRan /\ err' = "none")
             => /\ DictGet(user_config', "config_version", VNull) = VInt(FINAL_CONFIG_VERSION)
                /\ FileHolds(disk', user_config')
       /\ "config_version" \notin DOMAIN cmdline_options']_vars

C5_Witness ==
    /\ last.op = "init"
    /\ phase = "ready"
    /\ "config_version" \in DOMAIN options
    /\ steps = 1
    /\ user_config["config_version"] = VInt(FINAL_CONFIG_VERSION)
    /\ FileHolds(disk, user_config)

\* C6: an upgrade run right after an upgrade that returned leaves the
\* persisted layer and the file as they are and applies no migration step;
\* one that fails on the version leaves them as they are too.
C6_UpgradeIdempotent ==
    [][/\ (/\ \/ last.op = "upgrade"
              \/ last.op = "init" /\ steps > 0
           /\ err = "none"
           /\ last'.op = "upgrade"
           /\ err' = "none")
             => /\ user_config' = user_config
                /\ disk' = disk
                /\ steps' = 0
       /\ (last'.op = "upgrade" /\ err' = "BaseException")
             => /\ user_config' = user_config
                /\ disk' = disk]_vars

C6_Witness ==
    /\ last.op = "upgrade"
    /\ err = "none"
    /\ steps = 0
    /\ "auto_connect" \in DOMAIN user_config
    /\ DictGet(user_config, "server", VNull) = VStr(SrvS)
    /\ FileHolds(disk, user_config)

\* the text s reads host:port:protocol, port and protocol being its last two
\* colon-separated fields: the places of the two colons
ServerColons(s) ==
    {c \in (1..Len(s)) \X (1..Len(s)) :
        /\ c[1] < c[2]
        /\ s[c[1]] = Colon
        /\ s[c[2]] = Colon
        /\ \A n \in (c[1] + 1)..Len(s) : n # c[2] => s[n] # Colon}

\* ... with protocol s or t and a port that parses as an integer
ServerIsValid(s) ==
    \E c \in ServerColons(s) :
        /\ SubSeq(s, c[2] + 1, Len(s)) \in {<<"s">>, <<"t">>}
        /\ IntParses(SubSeq(s, c[1] + 1, c[2] - 1))

\* host:port:s, host and port kept
ServerAsSsl(s) ==
    LET c == CHOOSE c \in ServerColons(s) : TRUE IN SubSeq(s, 1, c[2]) \o <<"s">>

\* C7 as claimed: when step v1->v2 has been applied and the upgrade returns,
\* a server value host:port:protocol with protocol s or t and an integer
\* port has become host:port:s and every other value has left no server
\* key; a bad server value never makes the upgrade raise.
C7_ServerMigration ==
    [][(UpgradeRan /\ steps' = 1)
          => /\ err' \notin {"ValueError", "AssertionError"}
             /\ err' = "none"
                  => LET s == PyStr(DictGet(StoredLayer, "server", VNull)) IN
                     IF ServerIsValid(s)
                     THEN DictGet(user_config', "server", VNull) = VStr(ServerAsSsl(s))
                     ELSE "server" \notin DOMAIN user_config']_vars

\* C8: when an upgrade runs, step v1->v2 (range [1, 1]) is skipped for a
\* stored version above 1 and applied for version 1; for a stored version
\* below 1 the upgrade raises, the step is not applied, the persisted layer
\* and the file stay as they were, and a store under construction is not
\* constructed.
C8_VersionRange ==
    [][(UpgradeRan /\ IsNumber(StoredVersion))
          => LET v == NumOf(StoredVersion) IN
             /\ v > 1 => steps' = 0
             /\ v = 1 => steps' = 1
             /\ v < 1 => /\ err' = "BaseException"
                         /\ steps' = 0
                         /\ user_config' = StoredLayer
                         /\ disk' = disk
                         /\ last'.op = "init" => phase' = "failed"]_vars

C8_Witness ==
    /\ last.op = "init"
    /\ phase = "failed"
    /\ err = "BaseException"
    /\ steps = 0
    /\ FileHolds(disk, user_config)
    /\ DictGet(user_config, "config_version", VNull) = VInt(0)
    /\ "server" \in DOMAIN user_config

\* C9 as claimed: a config file that is absent, unparsable or no object
\* gives a store whose persisted layer is {config_version: 2}, with no
\* migration step run; and construction fails on the file's content only
\* for a stored version below the one step v1->v2 expects.
C9_StartupFailSoft ==
    [][last'.op = "init"
          => /\ disk.kind # "json_object"
                  => /\ phase' = "ready"
                     /\ user_config' = [k \in {"config_version"} |-> VInt(FINAL_CONFIG_VERSION)]
                     /\ steps' = 0
                     /\ disk' = disk
             /\ (phase' = "failed" /\ err' # "OSError")
                  => /\ err' = "BaseException"
                     /\ IsNumber(StoredVersion)
                     /\ NumOf(StoredVersion) < 1]_vars

C11_RefreshThrottle ==
    [][last'.op = "is_fee_estimates_update_required"
          => /\ (DOMAIN fee_estimates_last_updated = {}
                    /\ last_time_fee_estimates_requested = 0)
                   => out' = VBool(TRUE)
             /\ (last_time_fee_estimates_requested # 0
                    /\ now - last_time_fee_estimates_requested <= 60)
                   => out' = VBool(FALSE)]_vars

\* an estimate went stale, a request was made, and exactly 60 seconds later
\* the answer is False
C11_Witness ==
    /\ last.op = "is_fee_estimates_update_required"
    /\ out = VBool(FALSE)
    /\ last_time_fee_estimates_requested # 0
    /\ now - last_time_fee_estimates_requested = 60
    /\ \E k \in DOMAIN fee_estimates_last_updated :
          now - fee_estimates_last_updated[k] > 1200

\* C12: dynfee(i) reads the i-th of FEE_TARGETS for i in 0..3 and target 2
\* for i = 4; it returns None (never 0) when that target has no estimate,
\* and otherwise the estimate, times 1.5 for i = 4, capped at 5 times the
\* maximum fee rate the store is configured with (max_fee_rate()).
C12_DynfeeCapped ==
    [][last'.op = "dynfee"
          => LET i == last'.value.n
                 target == IF i < 4 THEN FEE_TARGETS[i + 1] ELSE 2
                 cap == 5 * max_fee_rate(cur).n
             IN  IF target \notin EstKeys(fee_estimates)
                 THEN out' = VNull
                 ELSE LET e == EstGet(fee_estimates, target).n
                          fee == IF i = 4 THEN (3 * e) \div 2 ELSE e
                      IN  out' = VInt(IF fee > cap THEN cap ELSE fee)]_vars

\* C13: reverse_dynfee(fee_per_kb) returns a result in every state of the
\* cache: -1 when fee_per_kb is below half of the estimate of target 25,
\* and otherwise the target whose estimate is nearest to fee_per_kb, among
\* the cached targets in insertion order followed by dynfee(4) as target 1,
\* the first of the nearest ones when several are as near.
C13_ReverseDynfee ==
    [][last'.op = "reverse_dynfee"
          => LET rate == last'.value.n
                 e25 == EstGet(fee_estimates, 25)
                 d4 == dynfee(fee_estimates, 4)
                 l == Append(fee_estimates, <<1, d4.n>>)
                 d(i) == Abs(l[i][2] - rate)
             IN  /\ err' = "none"
                 /\ IF e25 # VNull /\ 2 * rate < e25.n
                    THEN out' = VInt(0 - 1)
                    ELSE d4 # VNull
                            => \E i \in 1..Len(l) :
                                  /\ out' = VInt(l[i][1])
                                  /\ \A j \in 1..Len(l) :
                                        /\ d(i) <= d(j)
                                        /\ j < i => d(i) < d(j)]_vars

\* a call of set_key that wrote the config file and returned
SavedBySetKey ==
    /\ last'.op = "set_key"
    /\ last'.save
    /\ last'.key \notin DOMAIN cmdline_options
    /\ err' = "none"

\* the layer needs no upgrade when a store is constructed on it
IsCurrentLayer(d) ==
    /\ "config_version" \in DOMAIN d
    /\ IsNumber(d["config_version"])
    /\ NumOf(d["config_version"]) >= FINAL_CONFIG_VERSION

\* C14: once the persisted layer has been saved, reading the config file
\* gives a dict equal to the layer, and a store constructed on the
\* directory starts with that dict as its persisted layer.
C14_RoundTrip ==
    [][SavedBySetKey
          => /\ read_user_config(path', disk') = user_config'
             /\ \A opts \in OptionSets : \A m \in SimpleConfig(opts, disk') :
                   m.err = "none" /\ m.uc = user_config']_vars

\* C14 (amended): once the persisted layer has been saved, reading the
\* config file gives a dict equal to the layer; a store constructed on the
\* directory starts with that dict as its persisted layer when the layer
\* holds a numeric config_version that is at least FINAL_CONFIG_VERSION.
C14_RoundTripOfCurrentLayer ==
    [][SavedBySetKey
          => /\ read_user_config(path', disk') = user_config'
             /\ IsCurrentLayer(user_config')
                   => \A opts \in OptionSets : \A m \in SimpleConfig(opts, disk') :
                         m.err = "none" /\ m.uc = user_config']_vars

\* a layer of three keys was saved and a new store starts with it
C14_Witness ==
    /\ last.op = "set_key"
    /\ last.save
    /\ err = "none"
    /\ Cardinality(DOMAIN user_config) >= 3
    /\ IsCurrentLayer(user_config)
    /\ disk = ObjectFile(json_dumps(user_config))
    /\ \A m \in SimpleConfig(options, disk) : m.uc = user_config

\* C15: when a write of the config file raises during set_key(..., save=True)
\* or during an upgrade (the one the constructor runs included), the call
\* raises OSError to its caller.
C15_WriteErrorsRaised ==
    [][(last'.op \in {"set_key", "upgrade", "init"} /\ write_errors' > 0)
          => err' = "OSError"]_vars

\* C16: static_fee_index(value) is the index, from 0, of the entry of the
\* ladder 1000, 2000, ..., 10000 nearest to value, the lowest index when two
\* entries are as near; 0 gives index 0, 10000 gives index 9, and
\* static_fee gives a ladder value back from its index.
C16_StaticFeeIndex ==
    [][last'.op = "static_fee_index"
          => LET v == last'.value.n
                 i == out'.n
                 d(j) == Abs(1000 * (j + 1) - v)
             IN  /\ out'.t = "int"
                 /\ i \in 0..9
                 /\ \A j \in 0..9 : d(i) <= d(j) /\ (j < i => d(i) < d(j))
                 /\ v = 0 => i = 0
                 /\ v = 10000 => i = 9
                 /\ (\E j \in 0..9 : v = 1000 * (j + 1)) => static_fee(i) = v]_vars

\* 1500 is as near to 1000 as to 2000: index 0
C16_Witness ==
    /\ last.op = "static_fee_index"
    /\ last.value = VInt(1500)
    /\ out = VInt(0)

\* thread t is inside upgrade(), between taking the lock and giving it back
InUpgrade(t) == threads[t].op = "upgrade" /\ threads[t].pc \notin {"up_lock", "done"}

\* the places of get and set_key at which the thread reads or writes the
\* persisted layer or the config file
LayerAccess == {"get_read", "get_unlock", "set_store", "set_dumps", "set_write", "set_unlock"}

\* C17: from its first step until config_version is set to
\* FINAL_CONFIG_VERSION and saved, a thread in upgrade() owns the lock, no
\* other thread is at a place where get or set_key reads or writes the
\* persisted layer, and the thread itself can always take its next step:
\* the get and set_key calls it makes take the lock it already owns.
C17_UpgradeAtomic ==
    \A t \in Threads :
       InUpgrade(t)
          => /\ lock.owner = t
             /\ lock.count >= 1
             /\ \A u \in Threads \ {t} : threads[u].pc \notin LayerAccess
             /\ ENABLED ThreadStep(t)
             /\ (threads[t].pc = "up_unlock" /\ threads[t].err = "none")
                   => /\ DictGet(user_config, "config_version", VNull)
                            = VInt(FINAL_CONFIG_VERSION)
                      /\ disk = ObjectFile(json_dumps(user_config))

\* the upgrade is inside a nested set_key, the server already re-encoded
\* and the version still read as 1, while the other thread waits for the lock
C17_Witness ==
    \E t \in Threads :
       /\ InUpgrade(t)
       /\ lock.count = 2
       /\ DictGet(user_config, "server", VNull) = VStr(SrvS)
       /\ "config_version" \notin DOMAIN user_config
       /\ \E u \in Threads \ {t} : threads[u].pc \in {"get_lock", "set_lock"}

\* what set_key(key, value) leaves in the layer d
Holds(d, key, value) ==
    IF value = VNull THEN key \notin DOMAIN d ELSE DictGet(d, key, VNull) = value

\* C18: once two threads have both returned from set_key(k1, v1, save=True)
\* and set_key(k2, v2, save=True) on distinct modifiable keys, the persisted
\* layer holds both writes and the config file holds the persisted layer.
C18_ConcurrentSets ==
    \A t, u \in Threads :
       (/\ t # u
        /\ threads[t].op = "set_key" /\ threads[u].op = "set_key"
        /\ threads[t].key # threads[u].key
        /\ threads[t].key \notin DOMAIN cmdline_options
        /\ threads[u].key \notin DOMAIN cmdline_options
        /\ threads[t].pc = "done" /\ threads[u].pc = "done"
        /\ threads[t].err = "none" /\ threads[u].err = "none")
          => /\ Holds(user_config, threads[t].key, threads[t].value)
             /\ Holds(user_config, threads[u].key, threads[u].value)
             /\ disk = ObjectFile(json_dumps(user_config))

\* both calls have returned and both values are in the layer and in the file
C18_Witness ==
    /\ \A t \in Threads :
          /\ threads[t].op = "set_key"
          /\ threads[t].pc = "done"
          /\ threads[t].err = "none"
          /\ threads[t].value # VNull
          /\ DictGet(user_config, threads[t].key, VNull) = threads[t].value
    /\ threads[1].key # threads[2].key
    /\ disk = ObjectFile(json_dumps(user_config))

\* the places at which a thread reads or writes the fee cache
FeeAccess == {"fee_store", "fee_stamp", "fee_read"}

\* C19: a thread reads or writes the fee cache only while it owns the lock
\* of the store, and a thread that reads the cache finds a time stamp for
\* every target that has an estimate.
C19_FeeCacheUnderLock ==
    [][\A t \in Threads :
          (threads[t].pc \in FeeAccess /\ threads'[t] # threads[t])
             => /\ lock.owner = t
                /\ threads[t].pc = "fee_read"
                      => EstKeys(fee_estimates) \subseteq DOMAIN fee_estimates_last_updated]_vars

\* C20: is_fee_estimates_update_required() returns True exactly when some
\* target's time stamp is more than 1200 s old (the clock itself is, when
\* no target has one) and the last request (0 before the first) is more
\* than 60 s old; the call changes nothing, only requested_fee_estimates
\* changes the request time and only update_fee_estimates the time stamps.
C20_RefreshDue ==
    [][/\ last'.op = "is_fee_estimates_update_required"
             => /\ out'.t = "bool"
                /\ out'.b <=>
                      /\ IF DOMAIN fee_estimates_last_updated = {}
                         THEN now - 0 > 1200
                         ELSE \E k \in DOMAIN fee_estimates_last_updated :
                                 now - fee_estimates_last_updated[k] > 1200
                      /\ now - last_time_fee_estimates_requested > 60
                /\ UNCHANGED <<cfgVars, feeVars, clockVars, threadVars>>
       /\ last_time_fee_estimates_requested' # last_time_fee_estimates_requested
             => last'.op = "requested_fee_estimates"
       /\ fee_estimates_last_updated' # fee_estimates_last_updated
             => last'.op = "update_fee_estimates"]_vars

\* True with one fresh and one stale time stamp and a request made before
C20_Witness ==
    /\ last.op = "is_fee_estimates_update_required"
    /\ out = VBool(TRUE)
    /\ last_time_fee_estimates_requested # 0
    /\ \E j, k \in DOMAIN fee_estimates_last_updated :
          /\ now - fee_estimates_last_updated[j] <= 1200
          /\ now - fee_estimates_last_updated[k] > 1200

\* C21: update_fee_estimates(key, value) leaves key with the estimate value
\* and the time stamp now, and every other target with the estimate and
\* the time stamp it had; in every step a target keeps a time stamp that
\* is not below the one it had, and the targets with an estimate are the
\* targets with a time stamp.
C21_UpdateEstimate ==
    [][/\ last'.op = "update_fee_estimates"
             => LET key == last'.value.n
                    value == last'.value2.n
                IN  /\ EstGet(fee_estimates', key) = VInt(value)
                    /\ key \in DOMAIN fee_estimates_last_updated'
                    /\ fee_estimates_last_updated'[key] = now
                    /\ \A k \in (EstKeys(fee_estimates) \cup EstKeys(fee_estimates')) \ {key} :
                          EstGet(fee_estimates', k) = EstGet(fee_estimates, k)
                    /\ \A k \in (DOMAIN fee_estimates_last_updated
                                    \cup DOMAIN fee_estimates_last_updated') \ {key} :
                          /\ k \in DOMAIN fee_estimates_last_updated
                          /\ k \in DOMAIN fee_estimates_last_updated'
                          /\ fee_estimates_last_updated'[k] = fee_estimates_last_updated[k]
       /\ \A k \in DOMAIN fee_estimates_last_updated :
             /\ k \in DOMAIN fee_estimates_last_updated'
             /\ fee_estimates_last_updated'[k] >= fee_estimates_last_updated[k]
       /\ EstKeys(fee_estimates') = DOMAIN fee_estimates_last_updated']_vars

\* a target was updated again, later and with another estimate, while the
\* other target kept its older time stamp
C21_Witness ==
    /\ last.op = "update_fee_estimates"
    /\ last.value = VInt(2)
    /\ last.value2 = VInt(120000)
    /\ fee_estimates = <<(<<2, 120000>>), (<<25, 4000>>)>>
    /\ fee_estimates_last_updated[2] = now
    /\ fee_estimates_last_updated[25] < now
    /\ fee_estimates_last_updated[25] > StartTime

\* m2 is m with old renamed to new: an old key of m is gone and new holds
\* its own former value, or else the former value of old; with old absent
\* from m, neither key has changed
Renamed(m, m2, old, new) ==
    /\ old \notin DOMAIN m2
    /\ IF old \in DOMAIN m
       THEN /\ new \in DOMAIN m2
            /\ m2[new] = IF new \in DOMAIN m THEN m[new] ELSE m[old]
       ELSE /\ (new \in DOMAIN m2) = (new \in DOMAIN m)
            /\ new \in DOMAIN m => m2[new] = m[new]

\* m2 and m agree on every key outside ks
SameOutside(m, m2, ks) ==
    \A k \in (DOMAIN m \cup DOMAIN m2) \ ks :
        /\ k \in DOMAIN m
        /\ k \in DOMAIN m2
        /\ m2[k] = m[k]

\* the persisted layer the v1 -> v2 step of this call started from
LayerBeforeStep ==
    IF last'.op = "init" THEN read_user_config(electrum_path, disk) ELSE user_config

\* C22: rename_config_keys(m, pairs) renames each old key of m to its new
\* key: m[new] gets the former m[old] unless m already holds new, which
\* then keeps its own value; old is removed in both cases; a pair whose old
\* key is absent changes nothing; keys outside the pairs are not touched.
\* The constructor renames auto_cycle to auto_connect in the override
\* layer, the v1 -> v2 step does so in the persisted layer.
C22_RenameKeys ==
    [][/\ last'.op = "rename_config_keys"
            => LET pairs == KeyPairs[last'.value.n] IN
               /\ \A i \in 1..Len(pairs) :
                     Renamed(user_config, user_config', pairs[i][1], pairs[i][2])
               /\ SameOutside(user_config, user_config',
                              UNION {{pairs[i][1], pairs[i][2]} : i \in 1..Len(pairs)})
               /\ cmdline_options' = cmdline_options
               /\ disk' = disk
       /\ last'.op = "init"
            => /\ Renamed(DictPop(options', "config_version"), cmdline_options',
                          "auto_cycle", "auto_connect")
               /\ SameOutside(DictPop(options', "config_version"), cmdline_options',
                              {"auto_cycle", "auto_connect"})
       /\ (last'.op \in {"init", "upgrade"} /\ steps' = 1)
            => Renamed(LayerBeforeStep, user_config', "auto_cycle", "auto_connect")]_vars

\* server was renamed to gui_last_wallet, which held a wallet and kept it
C22_Witness ==
    /\ last.op = "rename_config_keys"
    /\ last.value = VInt(2)
    /\ out = VBool(TRUE)
    /\ "server" \notin DOMAIN user_config
    /\ DictGet(user_config, "gui_last_wallet", VNull) = VStr(WalletFile)
    /\ DictGet(user_config, "auto_connect", VNull) = VBool(FALSE)

\* the mapping in the config file f keeps "config_version =
\* FINAL_CONFIG_VERSION implies the v1 -> v2 step fully applied": no
\* auto_cycle key, and server absent or of the form host:port:s
Consistent(f) ==
    f.kind = "json_object"
       => LET d == json_loads(f.text) IN
          DictGet(d, "config_version", VNull) = VInt(FINAL_CONFIG_VERSION)
             => /\ "auto_cycle" \notin DOMAIN d
                /\ "server" \in DOMAIN d
                      => /\ d["server"].t = "str"
                         /\ ServerIsValid(d["server"].s)
                         /\ ServerAsSsl(d["server"].s) = d["server"].s

\* the persisted layers a process ends with that starts on the config file
\* f, upgrades it where it has to, and writes without an error
Rerun(f) ==
    {m.uc : m \in {x \in SimpleConfig(EmptyDict, f) : x.err = "none" /\ x.write_errors = 0}}

\* thread t, inside upgrade(), takes the step that writes the config file
UpgradeWrites(t) ==
    /\ InUpgrade(t)
    /\ threads[t].pc = "set_write"
    /\ threads'[t] # threads[t]
    /\ \A u \in Threads \ {t} : threads[u].err = "none"

\* C23 as claimed: whatever a write made inside upgrade() leaves on disk,
\* the file is never marked FINAL_CONFIG_VERSION with unmigrated data, and
\* a process that stops there and starts again on that file ends with the
\* same persisted layer as one started on the file before the write; the
\* upgrade that returns has ended with that layer.
C23_CrashConsistent ==
    [][\A t \in Threads :
          /\ (UpgradeWrites(t) /\ disk'.kind = "json_object")
                => /\ Consistent(disk')
                   /\ Rerun(disk') = Rerun(disk)
          /\ (InUpgrade(t) /\ threads'[t].pc = "up_unlock" /\ threads'[t].err = "none"
                /\ threads[t].pc # "up_unlock")
                => Rerun(disk') = {user_config'}]_vars

\* the part of C23 that failing writes leave intact: no write made inside
\* upgrade() leaves a file marked FINAL_CONFIG_VERSION with unmigrated data
MarkedOnlyWhenMigrated ==
    [][\A t \in Threads :
          (UpgradeWrites(t) /\ disk'.kind = "json_object") => Consistent(disk')]_vars

====
